---- MODULE Spec2Model ----
(***************************************************************************)
(* B6Tok API server (src/api/index.js): the TTL response cache, the        *)
(* /api/search and /api/trending handlers with their upstream calls, the   *)
(* /api/health handler, and the comics library tree builder.               *)
(*                                                                         *)
(* A JavaScript string is a sequence of characters, so that its length and *)
(* template concatenation are computed, not assumed.  Other JavaScript     *)
(* values are tagged records.                                              *)
(***************************************************************************)
EXTENDS Integers, Sequences, FiniteSets, TLC

VARIABLES
    now,        \* Date.now(), in ms
    cache,      \* the Map `cache`: key -> [data, expiry]
    handler,    \* per connection: Idle, or the locals of a handler suspended at `await axios.get`
    upstream,   \* per connection: NoCall, or the axios request in flight
    last,       \* the handler run that finished last: the request it was given, how
                \* its upstream call settled, and the responses it sent, in order
    writtenAt,  \* history: for each key in the Map, when setCache last stored it
    fs          \* the directory tree under COMICS_DIR

vars == <<now, cache, handler, upstream, last, writtenAt, fs>>

-----------------------------------------------------------------------------
(* Bounds of the model *)

MaxConn == 2        \* requests handled concurrently
MaxVideos == 2      \* length of an upstream video list
MaxPeriods == 1     \* TTL periods the clock runs through
MaxEntries == 3     \* entries under COMICS_DIR

-----------------------------------------------------------------------------
(* JavaScript values *)

Undefined == [t |-> "undefined"]
Null == [t |-> "null"]
Str(s) == [t |-> "string", v |-> s]
Num(n) == [t |-> "number", n |-> n]
Obj(p) == [t |-> "object", props |-> p]
Arr(a) == [t |-> "array", items |-> a]

Nullish(x) == x.t \in {"undefined", "null"}

\* ToBoolean, as applied by `!x`, `x || y`, `if (x)` and filter()
Truthy(x) ==
    CASE x.t \in {"undefined", "null"} -> FALSE
      [] x.t = "string" -> x.v # <<>>
      [] x.t = "number" -> x.n # 0
      [] OTHER -> TRUE

\* x.k for a non-nullish x (x.k on undefined or null throws a TypeError)
Get(x, k) ==
    IF x.t = "object" /\ k \in DOMAIN x.props THEN x.props[k] ELSE Undefined

\* x?.k
OptGet(x, k) == IF Nullish(x) THEN Undefined ELSE Get(x, k)

\* x alone, without the alternative
OrFirst(x, y) == x

\* x ?? y
Coalesce(x, y) == IF Nullish(x) THEN y ELSE x

\* x || y
Or(x, y) == IF Truthy(x) THEN x ELSE y

-----------------------------------------------------------------------------
(* Cache store *)

CACHE_TTL == 5 * 60 * 1000

EmptyMap == [k \in {} |-> Null]

MapSet(m, key, val) ==
    [k \in DOMAIN m \cup {key} |-> IF k = key THEN val ELSE m[k]]

MapDelete(m, key) == [k \in DOMAIN m \ {key} |-> m[k]]

\* getCached with the entry already expired at t = expiry (`>=` for `>`)
getCachedExpiredAtTtl(c, key, t) ==
    IF key \notin DOMAIN c
    THEN [value |-> Null, cache |-> c]
    ELSE IF t >= c[key].expiry
         THEN [value |-> Null, cache |-> MapDelete(c, key)]
         ELSE [value |-> c[key].data, cache |-> c]

\* getCached that also sweeps every other entry past its expiry
getCachedSweep(c, key, t) ==
    LET swept == [k \in {j \in DOMAIN c : t <= c[j].expiry} |-> c[k]] IN
    IF key \notin DOMAIN swept
    THEN [value |-> Null, cache |-> swept]
    ELSE [value |-> c[key].data, cache |-> swept]

\* getCached with sliding expiration: a hit renews the entry's expiry
getCachedSliding(c, key, t) ==
    IF key \notin DOMAIN c
    THEN [value |-> Null, cache |-> c]
    ELSE IF t > c[key].expiry
         THEN [value |-> Null, cache |-> MapDelete(c, key)]
         ELSE [ value |-> c[key].data,
                cache |-> MapSet(c, key, [data |-> c[key].data, expiry |-> t + CACHE_TTL]) ]

\* getCached(key) at time t on map c: the returned value and the map afterwards
getCached(c, key, t) ==
    IF key \notin DOMAIN c
    THEN [value |-> Null, cache |-> c]
    ELSE IF t > c[key].expiry
         THEN [value |-> Null, cache |-> MapDelete(c, key)]
         ELSE [value |-> c[key].data, cache |-> c]

\* setCache that keeps an entry already stored for the key
setCacheIfAbsent(c, key, data, t) ==
    IF key \in DOMAIN c
    THEN c
    ELSE MapSet(c, key, [data |-> data, expiry |-> t + CACHE_TTL])

\* setCache that keeps the expiry of an entry already stored for the key
setCacheKeepExpiry(c, key, data, t) ==
    MapSet(c, key, [ data |-> data,
                     expiry |-> IF key \in DOMAIN c THEN c[key].expiry ELSE t + CACHE_TTL ])

\* setCache(key, data) at time t on map c: the map afterwards
setCache(c, key, data, t) ==
    MapSet(c, key, [data |-> data, expiry |-> t + CACHE_TTL])

-----------------------------------------------------------------------------
(* Record normalizer *)

Author(v) == Get(v, "author")

\* the map() callback of /api/search
NormalizeSearch(v) ==
    [ id |-> Or(Get(v, "video_id"), Get(v, "aweme_id")),
      video_url |-> Get(v, "play"),
      video_url_no_wm |-> Get(v, "wmplay"),
      caption |-> Or(Get(v, "title"), Str(<<>>)),
      author |-> [ username |-> Or(OptGet(Author(v), "unique_id"), Str(<<"unknown">>)),
                   nickname |-> Or(OptGet(Author(v), "nickname"), Str(<<"Unknown User">>)),
                   avatar |-> Or(OptGet(Author(v), "avatar"), Str(<<>>)) ],
      cover |-> Or(Get(v, "cover"), Get(v, "origin_cover")),
      duration |-> Or(Get(v, "duration"), Num(0)),
      stats |-> [ likes |-> Or(Get(v, "digg_count"), Num(0)),
                  comments |-> Or(Get(v, "comment_count"), Num(0)),
                  shares |-> Or(Get(v, "share_count"), Num(0)),
                  plays |-> Or(Get(v, "play_count"), Num(0)) ],
      create_time |-> Get(v, "create_time") ]

\* the map() callback of /api/trending
NormalizeTrending(v) ==
    [ id |-> Or(Get(v, "video_id"), Get(v, "aweme_id")),
      video_url |-> Get(v, "play"),
      video_url_no_wm |-> Get(v, "wmplay"),
      caption |-> Or(Get(v, "title"), Str(<<>>)),
      author |-> [ username |-> Or(OptGet(Author(v), "unique_id"), Str(<<"unknown">>)),
                   nickname |-> Or(OptGet(Author(v), "nickname"), Str(<<"Unknown User">>)),
                   avatar |-> Or(OptGet(Author(v), "avatar"), Str(<<>>)) ],
      cover |-> Or(Get(v, "cover"), Get(v, "origin_cover")),
      duration |-> Or(Get(v, "duration"), Num(0)),
      stats |-> [ likes |-> Or(Get(v, "digg_count"), Num(0)),
                  comments |-> Or(Get(v, "comment_count"), Num(0)),
                  shares |-> Or(Get(v, "share_count"), Num(0)),
                  plays |-> Or(Get(v, "play_count"), Num(0)) ] ]

\* .filter(v => v.video_url)
Playable(v) == Truthy(v.video_url)

\* the list without the filter step
KeepAll(vs) == vs

FilterPlayable(vs) == SelectSeq(vs, Playable)

\* !data?.data || !data.data.videos
NoVideoList(data) ==
    \/ ~Truthy(OptGet(data, "data"))
    \/ ~Truthy(Get(Get(data, "data"), "videos"))

\* data.data.videos.map(v => ({ id: v.video_id ... })) throws a TypeError when
\* videos has no map method or when v.video_id is read off undefined or null
MapThrows(videos) ==
    \/ videos.t # "array"
    \/ \E i \in 1..Len(videos.items) : Nullish(videos.items[i])

-----------------------------------------------------------------------------
(* Responses: res.status(s).json(body) *)

Response(status, body) == [status |-> status, body |-> body]

NODE_ENV == "production"

\* the Error thrown by the runtime inside the try block
TypeError == [t |-> "object", props |-> [name |-> Str(<<"TypeError">>)],
              message |-> "Cannot read properties"]

-----------------------------------------------------------------------------
(* Inputs: query strings, upstream payloads, upstream failures *)

MAX_QUERY_LEN == 100
UPSTREAM_TIMEOUT == 8000

QueryOfLen(n) == Str([i \in 1..n |-> "x"])

\* req.query.q: absent, empty, or a string of 100 or 101 characters
Queries ==
    {Undefined, Str(<<>>)}
        \cup {QueryOfLen(n) : n \in {MAX_QUERY_LEN, MAX_QUERY_LEN + 1}}

\* req.query.quality: absent
Qualities == {Undefined}

FullVideo ==
    Obj([ video_id |-> Str(<<"v1">>), play |-> Str(<<"p1">>), wmplay |-> Str(<<"w1">>),
          title |-> Str(<<"t1">>),
          author |-> Obj([ unique_id |-> Str(<<"u1">>), nickname |-> Str(<<"n1">>),
                           avatar |-> Str(<<"a1">>) ]),
          cover |-> Str(<<"c1">>), duration |-> Num(15),
          digg_count |-> Num(3), comment_count |-> Num(2),
          share_count |-> Num(1), play_count |-> Num(9), create_time |-> Num(1700) ])

MinimalVideo == Obj([ aweme_id |-> Str(<<"v2">>), play |-> Str(<<"p2">>) ])

EmptyPlayVideo ==
    Obj([ video_id |-> Str(<<"v3">>), play |-> Str(<<>>), wmplay |-> Str(<<"w3">>) ])

NoPlayVideo == Obj([ video_id |-> Str(<<"v4">>), digg_count |-> Num(0) ])

\* both identifiers and both covers, an author without unique_id and avatar,
\* an empty title, and counters that are 0
ZeroVideo ==
    Obj([ video_id |-> Str(<<"v5">>), aweme_id |-> Str(<<"w5">>), play |-> Str(<<"p5">>),
          title |-> Str(<<>>), author |-> Obj([ nickname |-> Str(<<"n5">>) ]),
          cover |-> Str(<<"c5">>), origin_cover |-> Str(<<"o5">>),
          duration |-> Num(0), digg_count |-> Num(0), play_count |-> Num(0) ])

\* an empty video_id and cover beside the alternate fields, author null
FallbackVideo ==
    Obj([ video_id |-> Str(<<>>), aweme_id |-> Str(<<"v6">>), play |-> Str(<<"p6">>),
          wmplay |-> Null, author |-> Null,
          cover |-> Str(<<>>), origin_cover |-> Str(<<"o6">>) ])

RawRecords ==
    {FullVideo, MinimalVideo, EmptyPlayVideo, NoPlayVideo, ZeroVideo, FallbackVideo}

BoundedSeq(S, n) == UNION {[1..m -> S] : m \in 0..n}

\* response.data of a 2xx reply that carries a list of records
ListPayload(l) == Obj([ code |-> Num(0), data |-> Obj([ videos |-> Arr(l) ]) ])

\* 2xx replies that carry no list of records
HtmlBody == Str(<<"<html>">>)
NoDataPayload == Obj([ code |-> Num(-1), msg |-> Str(<<"limit">>) ])
NoVideosPayload == Obj([ code |-> Num(0), data |-> Obj([ cursor |-> Num(0) ]) ])
VideosNotAList == Obj([ code |-> Num(0), data |-> Obj([ videos |-> Obj([ cursor |-> Num(0) ]) ]) ])
VideosWithNull == Obj([ code |-> Num(0), data |-> Obj([ videos |-> Arr(<<FullVideo, Null>>) ]) ])

MalformedPayloads ==
    {HtmlBody, NoDataPayload, NoVideosPayload, VideosNotAList, VideosWithNull}

SampleLists == {<<FullVideo>>, <<EmptyPlayVideo, MinimalVideo>>, <<NoPlayVideo>>}

SamplePayloads == MalformedPayloads \cup {ListPayload(l) : l \in SampleLists}

AllListPayloads == {ListPayload(l) : l \in BoundedSeq(RawRecords, MaxVideos)}

\* the errors axios rejects with
AxiosError(code, response, message) ==
    [t |-> "object", props |-> [code |-> code, response |-> response], message |-> message]

TimeoutError == AxiosError(Str(<<"ECONNABORTED">>), Undefined, "timeout of 8000ms exceeded")
RateLimitError ==
    AxiosError(Str(<<"ERR_BAD_REQUEST">>), Obj([status |-> Num(429)]), "status code 429")
ServerError ==
    AxiosError(Str(<<"ERR_BAD_RESPONSE">>), Obj([status |-> Num(503)]), "status code 503")
NetworkError == AxiosError(Str(<<"ENOTFOUND">>), Undefined, "getaddrinfo ENOTFOUND")
AbortedRateLimitError ==
    AxiosError(Str(<<"ECONNABORTED">>), Obj([status |-> Num(429)]), "aborted")

UpstreamErrors == {RateLimitError, ServerError, NetworkError, AbortedRateLimitError}

\* how an axios request in flight can settle: it resolves with response.data,
\* rejects with an error, or, when a timeout is configured, rejects with the
\* timeout error once that many ms have passed
Outcomes(call, payloads) ==
    {[kind |-> "resolved", data |-> d] : d \in payloads}
        \cup {[kind |-> "rejected", err |-> e] : e \in UpstreamErrors}
        \cup (IF call.timeout > 0
              THEN {[kind |-> "rejected", err |-> TimeoutError]}
              ELSE {})

\* a handler run that made no upstream call
NotCalled == [kind |-> "none"]

-----------------------------------------------------------------------------
(* /api/search *)

Conns == 1..MaxConn

Idle == [route |-> "idle"]
NoCall == [url |-> "none"]

SEARCH_URL == "https://www.tikwm.com/api/feed/search"
LIST_URL == "https://www.tikwm.com/api/feed/list"

\* const { q, quality = "low" } = req.query
QualityOrDefault(quality) ==
    IF quality = Undefined THEN Str(<<"l", "o", "w">>) ELSE quality

\* `search:${q}:${quality}`
SearchKey(q, quality) ==
    <<"s", "e", "a", "r", "c", "h", ":">> \o q.v \o <<":">> \o quality.v

TrendingKey == <<"t", "r", "e", "n", "d", "i", "n", "g">>

\* the validation without its length check
SearchValidationNoLength(q) ==
    IF ~Truthy(q)
    THEN << Response(400, [ error |-> "Missing query parameter: q",
                            example |-> "/api/search?q=spider+man" ]) >>
    ELSE << >>

\* the two validation returns of /api/search: the responses sent, none if q passes
SearchValidation(q) ==
    IF ~Truthy(q)
    THEN << Response(400, [ error |-> "Missing query parameter: q",
                            example |-> "/api/search?q=spider+man" ]) >>
    ELSE IF Len(q.v) > MAX_QUERY_LEN
         THEN << Response(400, [ error |-> "Query too long (max 100 characters)" ]) >>
         ELSE << >>

\* res.json(cached): the stored object as it is
HitResponseStored(cached) == Response(200, cached)

\* res.json({ ...cached, cached: true })
HitResponse(cached) == Response(200, [cached EXCEPT !.cached = TRUE])

\* the search call without a timeout (axios: 0 means none)
SearchCallNoTimeout(q, quality) ==
    [ url |-> SEARCH_URL,
      params |-> [ keywords |-> q, count |-> 20,
                   hd |-> IF quality = Str(<<"h", "i", "g", "h">>) THEN 1 ELSE 0 ],
      timeout |-> 0 ]

\* axios.get(apiUrl, { params, timeout: 8000, headers })
SearchCall(q, quality) ==
    [ url |-> SEARCH_URL,
      params |-> [ keywords |-> q, count |-> 20,
                   hd |-> IF quality = Str(<<"h", "i", "g", "h">>) THEN 1 ELSE 0 ],
      timeout |-> UPSTREAM_TIMEOUT ]

\* axios.get("https://www.tikwm.com/api/feed/list", { timeout: 8000, headers })
TrendingCall == [ url |-> LIST_URL, timeout |-> UPSTREAM_TIMEOUT ]

\* the catch block with the rate-limit check ahead of the timeout check
SearchCatchRateLimitFirst(err) ==
    IF OptGet(Get(err, "response"), "status") = Num(429)
    THEN << Response(429, [ error |-> "Rate limited",
                            message |-> "Too many requests. Please try again later." ]) >>
    ELSE IF Get(err, "code") = Str(<<"ECONNABORTED">>)
         THEN << Response(504, [ error |-> "Request timeout",
                                 message |-> "TikTok API is slow or unavailable" ]) >>
         ELSE << Response(500, [ error |-> "Failed to fetch TikTok data",
                                 message |-> IF NODE_ENV = "development"
                                             THEN err.message
                                             ELSE "Internal server error" ]) >>

\* the catch block that only logs
SearchCatchSilent(err) == << >>

\* the catch block of /api/search: the responses it sends, in order
SearchCatch(err) ==
    IF Get(err, "code") = Str(<<"ECONNABORTED">>)
    THEN << Response(504, [ error |-> "Request timeout",
                            message |-> "TikTok API is slow or unavailable" ]) >>
    ELSE IF OptGet(Get(err, "response"), "status") = Num(429)
         THEN << Response(429, [ error |-> "Rate limited",
                                 message |-> "Too many requests. Please try again later." ]) >>
         ELSE << Response(500, [ error |-> "Failed to fetch TikTok data",
                                 message |-> IF NODE_ENV = "development"
                                             THEN err.message
                                             ELSE "Internal server error" ]) >>

\* the catch block answering twice
TrendingCatchTwice(err) ==
    << Response(500, [ error |-> "Failed to fetch trending videos" ]),
       Response(500, [ error |-> "Failed to fetch trending videos" ]) >>

\* the catch block of /api/trending
TrendingCatch(err) ==
    << Response(500, [ error |-> "Failed to fetch trending videos" ]) >>

\* /api/search from `const data = response.data` on, with the map c at time t:
\* the map afterwards and the responses sent
SearchContinuation(h, o, c, t) ==
    IF o.kind = "rejected"
    THEN [cache |-> c, out |-> SearchCatch(o.err)]
    ELSE IF NoVideoList(o.data)
    THEN [ cache |-> c,
           out |-> << Response(200, [ videos |-> << >>, count |-> 0, query |-> h.q,
                                      message |-> "No videos found" ]) >> ]
    ELSE LET raw == Get(Get(o.data, "data"), "videos") IN
         IF MapThrows(raw)
         THEN [cache |-> c, out |-> SearchCatch(TypeError)]
         ELSE LET videos == FilterPlayable([i \in 1..Len(raw.items) |-> NormalizeSearch(raw.items[i])])
                  result == [ videos |-> videos, count |-> Len(videos),
                              query |-> h.q, cached |-> FALSE ]
              IN  [ cache |-> setCache(c, h.cacheKey, result, t),
                    out |-> << Response(200, result) >> ]

\* /api/trending storing its empty-result response too
TrendingContinuationCacheEmpty(h, o, c, t) ==
    IF o.kind = "rejected"
    THEN [cache |-> c, out |-> TrendingCatch(o.err)]
    ELSE IF NoVideoList(o.data)
    THEN LET empty == [ videos |-> << >>, count |-> 0,
                        message |-> "No trending videos found" ]
         IN  [ cache |-> setCache(c, h.cacheKey, empty, t),
               out |-> << Response(200, empty) >> ]
    ELSE LET raw == Get(Get(o.data, "data"), "videos") IN
         IF MapThrows(raw)
         THEN [cache |-> c, out |-> TrendingCatch(TypeError)]
         ELSE LET videos == FilterPlayable([i \in 1..Len(raw.items) |-> NormalizeTrending(raw.items[i])])
                  result == [ videos |-> videos, count |-> Len(videos), cached |-> FALSE ]
              IN  [ cache |-> setCache(c, h.cacheKey, result, t),
                    out |-> << Response(200, result) >> ]

\* /api/trending from `const data = response.data` on
TrendingContinuation(h, o, c, t) ==
    IF o.kind = "rejected"
    THEN [cache |-> c, out |-> TrendingCatch(o.err)]
    ELSE IF NoVideoList(o.data)
    THEN [ cache |-> c,
           out |-> << Response(200, [ videos |-> << >>, count |-> 0,
                                      message |-> "No trending videos found" ]) >> ]
    ELSE LET raw == Get(Get(o.data, "data"), "videos") IN
         IF MapThrows(raw)
         THEN [cache |-> c, out |-> TrendingCatch(TypeError)]
         ELSE LET videos == FilterPlayable([i \in 1..Len(raw.items) |-> NormalizeTrending(raw.items[i])])
                  result == [ videos |-> videos, count |-> Len(videos), cached |-> FALSE ]
              IN  [ cache |-> setCache(c, h.cacheKey, result, t),
                    out |-> << Response(200, result) >> ]

-----------------------------------------------------------------------------
(* Library tree builder *)

\* baseUrl = "/comics"
COMICS_URL == <<"/", "c", "o", "m", "i", "c", "s">>

\* file names under COMICS_DIR
Names == {<<"a">>, <<"b">>, <<"c">>, <<".", "h">>}

\* what an entry can be: a regular file, a directory, or an entry that cannot
\* be stat'ed (a dangling link, an entry deleted after it was listed)
EntryKinds == {"file", "dir", "broken"}

\* the tree is a map from the path relative to COMICS_DIR ("" is COMICS_DIR
\* itself) to the entry there; a directory of kind "nolist" cannot be listed;
\* entries are listed in the order ord
EmptyFs == [p \in {<< >>} |-> [kind |-> "dir", ord |-> 0]]

\* path.join(relPath, name)
PathJoin(relPath, name) == relPath \o <<"/">> \o name

Children(f, relPath) ==
    {q \in DOMAIN f : q # << >> /\ f[q].parent = relPath}

\* fs.readdirSync(absDir) throws when the directory is missing or unreadable
ReaddirThrows(f, relPath) ==
    relPath \notin DOMAIN f \/ f[relPath].kind # "dir"

\* fs.readdirSync(absDir): the names, in the order the file system keeps them
Readdir(f, relPath) ==
    LET ch == Children(f, relPath) IN
    [ i \in 1..Cardinality(ch) |->
        f[CHOOSE q \in ch : Cardinality({r \in ch : f[r].ord < f[q].ord}) = i - 1].name ]

\* fs.statSync(full) throws
StatThrows(f, rel) == rel \notin DOMAIN f \/ f[rel].kind = "broken"

\* stat.isDirectory()
IsDirectory(f, rel) == f[rel].kind \in {"dir", "nolist"}

\* name.startsWith(".")
Hidden(name) == name # << >> /\ Head(name) = "."

\* rel.replace(/\\/g, "/")
Slashed(rel) == [i \in 1..Len(rel) |-> IF rel[i] = "\\" THEN "/" ELSE rel[i]]

DirNode(name, rel, children) ==
    [type |-> "dir", name |-> name, path |-> Slashed(rel), children |-> children]

FileNode(name, rel, st, baseUrl) ==
    [ type |-> "file", name |-> name, path |-> Slashed(rel),
      size |-> st.size, modified |-> st.mtime,
      url |-> baseUrl \o <<"/">> \o Slashed(rel) ]

\* the collation weight of a character in the "vi" locale: punctuation before
\* letters, letters in alphabetical order
CollationWeight(ch) ==
    CASE ch = "." -> 1
      [] ch = "a" -> 10
      [] ch = "b" -> 11
      [] ch = "c" -> 12
      [] ch = "h" -> 17
      [] OTHER -> 99

RECURSIVE LocaleCompare(_, _)
\* a.localeCompare(b, "vi"): negative, zero or positive
LocaleCompare(a, b) ==
    IF a = << >> /\ b = << >> THEN 0
    ELSE IF a = << >> THEN -1
    ELSE IF b = << >> THEN 1
    ELSE IF CollationWeight(Head(a)) < CollationWeight(Head(b)) THEN -1
    ELSE IF CollationWeight(Head(a)) > CollationWeight(Head(b)) THEN 1
    ELSE LocaleCompare(Tail(a), Tail(b))

\* the comparator without its type check: by name alone
CompareNodesByName(a, b) == LocaleCompare(a.name, b.name)

\* the comparator of .sort(): directories first, then by name
CompareNodes(a, b) ==
    IF a.type # b.type
    THEN (IF a.type = "dir" THEN -1 ELSE 1)
    ELSE LocaleCompare(a.name, b.name)

RECURSIVE InsertNode(_, _)
InsertNode(x, sorted) ==
    IF sorted = << >> THEN << x >>
    ELSE IF CompareNodes(x, Head(sorted)) < 0
         THEN << x >> \o sorted
         ELSE << Head(sorted) >> \o InsertNode(x, Tail(sorted))

RECURSIVE SortNodes(_)
\* Array.prototype.sort with CompareNodes (stable)
SortNodes(s) ==
    IF s = << >> THEN << >>
    ELSE InsertNode(s[Len(s)], SortNodes(SubSeq(s, 1, Len(s) - 1)))

RECURSIVE readComicsTree(_, _, _)

\* the map() callback: the node made for one listed name, or threw
TreeEntry(f, baseUrl, relPath, name) ==
    LET rel == IF relPath # << >> THEN PathJoin(relPath, name) ELSE name IN
    IF StatThrows(f, rel)
    THEN [threw |-> TRUE]
    ELSE IF IsDirectory(f, rel)
    THEN LET sub == readComicsTree(f, baseUrl, rel) IN
         IF sub.threw
         THEN [threw |-> TRUE]
         ELSE [threw |-> FALSE, node |-> DirNode(name, rel, sub.entries)]
    ELSE [threw |-> FALSE, node |-> FileNode(name, rel, f[rel], baseUrl)]

\* the try block of readComicsTree: the entries it assigns, or threw
TreeTry(f, baseUrl, relPath) ==
    IF ReaddirThrows(f, relPath)
    THEN [threw |-> TRUE, entries |-> << >>]
    ELSE LET visible == SelectSeq(Readdir(f, relPath), LAMBDA n : ~Hidden(n))
             mapped == [i \in 1..Len(visible) |-> TreeEntry(f, baseUrl, relPath, visible[i])]
         IN  IF \E i \in 1..Len(visible) : mapped[i].threw
             THEN [threw |-> TRUE, entries |-> << >>]
             ELSE [ threw |-> FALSE,
                    entries |-> SortNodes([i \in 1..Len(visible) |-> mapped[i].node]) ]

\* readComicsTree without its catch: what the try block throws leaves the call
readComicsTreeNoCatch(f, baseUrl, relPath) == TreeTry(f, baseUrl, relPath)

\* readComicsTree(dir, baseUrl, relPath): `let entries = []`, the try block,
\* the catch that only logs, `return entries`
readComicsTree(f, baseUrl, relPath) ==
    LET tried == TreeTry(f, baseUrl, relPath) IN
    IF tried.threw THEN [threw |-> FALSE, entries |-> << >>] ELSE tried

\* the /api/library handler: the responses sent (an exception leaving the
\* handler is answered by the framework with a 500)
LibraryResponse(f) ==
    LET tree == readComicsTree(f, COMICS_URL, << >>) IN
    IF tree.threw
    THEN << Response(500, [error |-> "Internal Server Error"]) >>
    ELSE << Response(200, [baseUrl |-> COMICS_URL, items |-> tree.entries]) >>

-----------------------------------------------------------------------------
(* Actions *)

SearchReq(q, quality) == [route |-> "search", q |-> q, quality |-> quality]
TrendingReq == [route |-> "trending"]
HealthReq == [route |-> "health"]
LibraryReq == [route |-> "library"]

Run(req, settled, out) == [req |-> req, settled |-> settled, out |-> out]

\* the history of setCache times after the Map went from c1 to c2 at time t
Stamped(c1, c2, t) ==
    [k \in DOMAIN c2 |-> IF k \in DOMAIN c1 /\ c1[k] = c2[k] THEN writtenAt[k] ELSE t]

\* GET /api/search?q=..&quality=.. on connection c, up to the response or to
\* the suspension at `await axios.get`
SearchRequest(c, q, quality) ==
    /\ handler[c] = Idle
    /\ LET rejected == SearchValidation(q) IN
       IF rejected # << >>
       THEN /\ last' = Run(SearchReq(q, quality), NotCalled, rejected)
            /\ UNCHANGED <<cache, writtenAt, handler, upstream>>
       ELSE LET qual == QualityOrDefault(quality)
                cacheKey == SearchKey(q, qual)
                got == getCached(cache, cacheKey, now)
            IN  /\ cache' = got.cache
                /\ writtenAt' = Stamped(cache, got.cache, now)
                /\ IF got.value # Null
                   THEN /\ last' = Run(SearchReq(q, quality), NotCalled,
                                       << HitResponse(got.value) >>)
                        /\ UNCHANGED <<handler, upstream>>
                   ELSE /\ handler' = [handler EXCEPT ![c] =
                                [ route |-> "search", q |-> q, quality |-> quality,
                                  cacheKey |-> cacheKey ]]
                        /\ upstream' = [upstream EXCEPT ![c] = SearchCall(q, qual)]
                        /\ UNCHANGED last
    /\ UNCHANGED <<now, fs>>

\* the upstream call of a suspended /api/search settles and the handler runs to its end
SearchSettle(c, payloads) ==
    /\ handler[c].route = "search"
    /\ \E o \in Outcomes(upstream[c], payloads) :
         LET run == SearchContinuation(handler[c], o, cache, now) IN
         /\ cache' = run.cache
         /\ writtenAt' = Stamped(cache, run.cache, now)
         /\ last' = Run(SearchReq(handler[c].q, handler[c].quality), o, run.out)
    /\ handler' = [handler EXCEPT ![c] = Idle]
    /\ upstream' = [upstream EXCEPT ![c] = NoCall]
    /\ UNCHANGED <<now, fs>>

\* GET /api/trending on connection c, up to the response or to the suspension
TrendingRequest(c) ==
    /\ handler[c] = Idle
    /\ LET got == getCached(cache, TrendingKey, now) IN
       /\ cache' = got.cache
       /\ writtenAt' = Stamped(cache, got.cache, now)
       /\ IF got.value # Null
          THEN /\ last' = Run(TrendingReq, NotCalled, << HitResponse(got.value) >>)
               /\ UNCHANGED <<handler, upstream>>
          ELSE /\ handler' = [handler EXCEPT ![c] =
                       [route |-> "trending", cacheKey |-> TrendingKey]]
               /\ upstream' = [upstream EXCEPT ![c] = TrendingCall]
               /\ UNCHANGED last
    /\ UNCHANGED <<now, fs>>

\* the upstream call of a suspended /api/trending settles and the handler runs to its end
TrendingSettle(c, payloads) ==
    /\ handler[c].route = "trending"
    /\ \E o \in Outcomes(upstream[c], payloads) :
         LET run == TrendingContinuation(handler[c], o, cache, now) IN
         /\ cache' = run.cache
         /\ writtenAt' = Stamped(cache, run.cache, now)
         /\ last' = Run(TrendingReq, o, run.out)
    /\ handler' = [handler EXCEPT ![c] = Idle]
    /\ upstream' = [upstream EXCEPT ![c] = NoCall]
    /\ UNCHANGED <<now, fs>>

\* GET /api/health
HealthRequest(c) ==
    /\ handler[c] = Idle
    /\ last' = Run(HealthReq, NotCalled,
                   << Response(200, [ status |-> 200,
                                      cache_size |-> Cardinality(DOMAIN cache),
                                      timestamp |-> now,
                                      message |-> "OK",
                                      comics_dir |-> "/comics" ]) >>)
    /\ UNCHANGED <<now, cache, writtenAt, handler, upstream, fs>>

\* GET /api/library
LibraryRequest(c) ==
    /\ handler[c] = Idle
    /\ last' = Run(LibraryReq, NotCalled, LibraryResponse(fs))
    /\ UNCHANGED <<now, cache, writtenAt, handler, upstream, fs>>

\* someone puts an entry into a directory under COMICS_DIR
CreateEntry(parent, name, kind) ==
    /\ parent \in DOMAIN fs
    /\ fs[parent].kind \in {"dir", "nolist"}
    /\ Cardinality(DOMAIN fs) <= MaxEntries
    /\ LET rel == IF parent # << >> THEN PathJoin(parent, name) ELSE name
           ords == {fs[q].ord : q \in Children(fs, parent)}
           entry == [ kind |-> kind, parent |-> parent, name |-> name,
                      ord |-> Cardinality(ords), size |-> 1, mtime |-> now ]
       IN  /\ rel \notin DOMAIN fs
           /\ fs' = [q \in DOMAIN fs \cup {rel} |-> IF q = rel THEN entry ELSE fs[q]]
    /\ UNCHANGED <<now, cache, writtenAt, handler, upstream, last>>

\* a directory loses its read permission
Chmod(p) ==
    /\ p \in DOMAIN fs
    /\ fs[p].kind = "dir"
    /\ fs' = [fs EXCEPT ![p].kind = "nolist"]
    /\ UNCHANGED <<now, cache, writtenAt, handler, upstream, last>>

\* the instants the clock is observed at: the start, and around each TTL period
Instants ==
    {0} \cup {k * CACHE_TTL + j : k \in 1..MaxPeriods, j \in {-1, 0, 1}}

\* time passes
Tick ==
    /\ \E t \in Instants : t > now /\ now' = t
    /\ UNCHANGED <<cache, writtenAt, handler, upstream, last, fs>>

NoRun == Run([route |-> "none"], NotCalled, << >>)

Init ==
    /\ now = 0
    /\ cache = EmptyMap
    /\ writtenAt = EmptyMap
    /\ handler = [c \in Conns |-> Idle]
    /\ upstream = [c \in Conns |-> NoCall]
    /\ last = NoRun
    /\ fs = EmptyFs

\* the server: requests on every route, upstream replies, time
Next ==
    \/ \E c \in Conns : TrendingRequest(c)
    \/ \E c \in Conns : TrendingSettle(c, SamplePayloads)
    \/ \E c \in Conns, q \in Queries, quality \in Qualities : SearchRequest(c, q, quality)
    \/ \E c \in Conns : SearchSettle(c, SamplePayloads)
    \/ \E c \in Conns : HealthRequest(c)
    \/ \E c \in Conns : LibraryRequest(c)
    \/ Tick

Spec == Init /\ [][Next]_vars

\* the server when every upstream call in flight eventually settles: axios
\* resolves, rejects, or rejects with the timeout error after 8000 ms
LivePayloads == {ListPayload(<<FullVideo>>), NoDataPayload, VideosNotAList}

NextLive ==
    \/ \E c \in Conns : TrendingRequest(c)
    \/ \E c \in Conns : TrendingSettle(c, LivePayloads)
    \/ \E c \in Conns, q \in Queries, quality \in Qualities : SearchRequest(c, q, quality)
    \/ \E c \in Conns : SearchSettle(c, LivePayloads)
    \/ \E c \in Conns : HealthRequest(c)
    \/ \E c \in Conns : LibraryRequest(c)
    \/ Tick

SpecLive ==
    /\ Init /\ [][NextLive]_vars
    /\ \A c \in Conns :
          /\ WF_vars(SearchSettle(c, LivePayloads))
          /\ WF_vars(TrendingSettle(c, LivePayloads))

\* query strings and qualities with and without the separator of the cache key
KeyQueries == {Str(<<"a">>), Str(<<"a", ":", "b">>)}
KeyQualities == {Undefined, Str(<<"c">>), Str(<<"b", ":", "c">>)}
KeyPayloads == {ListPayload(<<FullVideo>>)}

\* the cache keys on their own: search requests over KeyQueries and KeyQualities
\* beside trending requests
NextKeys ==
    \/ \E c \in Conns : TrendingRequest(c)
    \/ \E c \in Conns : TrendingSettle(c, KeyPayloads)
    \/ \E c \in Conns, q \in KeyQueries, quality \in KeyQualities : SearchRequest(c, q, quality)
    \/ \E c \in Conns : SearchSettle(c, KeyPayloads)

SpecKeys == Init /\ [][NextKeys]_vars

\* the normalizer and filter on their own: search and trending requests whose
\* upstream call resolves with any list of up to MaxVideos records
NextFeed ==
    \/ \E c \in Conns : TrendingRequest(c)
    \/ \E c \in Conns : TrendingSettle(c, AllListPayloads)
    \/ \E c \in Conns, quality \in Qualities :
            SearchRequest(c, QueryOfLen(MAX_QUERY_LEN), quality)
    \/ \E c \in Conns : SearchSettle(c, AllListPayloads)

SpecFeed == Init /\ [][NextFeed]_vars

\* the library on its own: the tree under COMICS_DIR grows and is listed
NextLibrary ==
    \/ \E parent \in DOMAIN fs, name \in Names, kind \in EntryKinds :
            CreateEntry(parent, name, kind)
    \/ \E p \in DOMAIN fs : Chmod(p)
    \/ \E c \in Conns : LibraryRequest(c)

SpecLibrary == Init /\ [][NextLibrary]_vars

-----------------------------------------------------------------------------
(* Vocabulary of the properties *)

\* the key a search or trending request reads the cache with
RequestKey(req) ==
    IF req.route = "trending"
    THEN TrendingKey
    ELSE SearchKey(req.q, QualityOrDefault(req.quality))

CachedRoutes == {"search", "trending"}

\* this step answers a search or trending request from the cache
HitStep ==
    /\ last' # last
    /\ last'.req.route \in CachedRoutes
    /\ last'.settled = NotCalled
    /\ last'.out[1].status = 200

\* this step suspends the handler on connection c at its upstream call
MissStep(c) == handler[c] = Idle /\ handler'[c] # Idle

\* this step runs the handler on connection c from its upstream reply to its end
SettleStep(c) == handler[c] # Idle /\ handler'[c] = Idle

\* the last run answered from the cache
LastWasHit ==
    /\ last.req.route \in CachedRoutes
    /\ last.settled = NotCalled
    /\ last.out[1].status = 200

\* the last run got a list of records from upstream and answered with its result
LastWasFresh ==
    /\ last.req.route \in CachedRoutes
    /\ last.settled.kind = "resolved"
    /\ last.out[1].status = 200
    /\ "cached" \in DOMAIN last.out[1].body

Live(k) == k \in DOMAIN cache /\ now <= cache[k].expiry

-----------------------------------------------------------------------------
(* C1 *)

\* C1, as stated: a value set at time t is served for reads at t' < t + 300000
\* only; no read at t' >= t + 300000 is answered from the cache.
C1_ExpiredAtTtl ==
    [][HitStep => now < writtenAt[RequestKey(last'.req)] + CACHE_TTL]_vars

\* C1, amended: after setCache(k, v) at time t with no later set of k, a read of k
\* at any t' <= t + 300000 returns v unchanged (a request is answered with v and
\* cached: true, and getCached leaves the entry in place), and a read at any
\* t' > t + 300000 returns absent: the entry is still live at exactly t + 300000.
C1_LiveThroughTtl ==
    /\ [](\A k \in DOMAIN cache :
            LET got == getCached(cache, k, now) IN
            IF now <= writtenAt[k] + CACHE_TTL
            THEN got.value = cache[k].data /\ got.cache = cache
            ELSE got.value = Null /\ k \notin DOMAIN got.cache)
    /\ [][/\ HitStep =>
                LET k == RequestKey(last'.req) IN
                /\ k \in DOMAIN cache
                /\ now <= writtenAt[k] + CACHE_TTL
                /\ last'.out = << Response(200, [cache[k].data EXCEPT !.cached = TRUE]) >>
          /\ \A c \in Conns : MissStep(c) =>
                LET k == handler'[c].cacheKey IN
                k \in DOMAIN cache => now > writtenAt[k] + CACHE_TTL]_vars

\* a request was answered from the cache and the clock stands exactly at t + 300000
C1_Witness ==
    /\ LastWasHit
    /\ RequestKey(last.req) \in DOMAIN cache
    /\ now = writtenAt[RequestKey(last.req)] + CACHE_TTL

-----------------------------------------------------------------------------
(* C2 *)

\* C2: requests are not coalesced.  A request that misses always gets an upstream
\* call of its own, also while another request for the same key is in flight, and
\* every request whose call brings a list stores its own result: after it the
\* Map holds that result for the key, whatever an earlier request stored there.
C2_NoCoalescingLastWriteWins ==
    /\ [](\A c \in Conns : handler[c] # Idle => upstream[c] # NoCall)
    /\ [][\A c \in Conns :
            /\ MissStep(c) => upstream'[c] # NoCall
            /\ (SettleStep(c) /\ last'.settled.kind = "resolved"
                    /\ "cached" \in DOMAIN last'.out[1].body) =>
                    /\ handler[c].cacheKey \in DOMAIN cache'
                    /\ cache'[handler[c].cacheKey].data = last'.out[1].body
                    /\ writtenAt'[handler[c].cacheKey] = now]_vars

\* a search request is still waiting for upstream while the entry for its key,
\* stored since by a concurrent request for the same key, holds another
\* request's result
C2_Witness ==
    \E c \in Conns :
        /\ handler[c].route = "search"
        /\ Live(handler[c].cacheKey)
        /\ LastWasFresh
        /\ last.req.route = "search"
        /\ RequestKey(last.req) = handler[c].cacheKey

-----------------------------------------------------------------------------
(* C3 *)

\* q is absent, empty or longer than 100 characters
Rejectable(q) == q = Undefined \/ q.v = << >> \/ Len(q.v) > 100

\* C3: a search request whose q is absent, empty or longer than 100 characters is
\* answered 400 and by nothing else, and it touches neither the cache nor
\* upstream: the step that answers it changes no entry and starts no call, and no
\* call in flight and no suspended handler carries such a q.  A q of exactly 100
\* characters is never answered 400.
C3_ValidationFirst ==
    /\ [](/\ last.req.route = "search" =>
                /\ Len(last.out) = 1
                /\ Rejectable(last.req.q) <=> last.out[1].status = 400
          /\ \A c \in Conns :
                /\ handler[c].route = "search" => ~Rejectable(handler[c].q)
                /\ upstream[c].url = SEARCH_URL => ~Rejectable(upstream[c].params.keywords))
    /\ [][(last' # last /\ last'.req.route = "search" /\ Rejectable(last'.req.q)) =>
            UNCHANGED <<cache, writtenAt, handler, upstream>>]_vars

\* a request with 101 characters was answered 400 while an entry was cached,
\* and a request with 100 characters is waiting for upstream
C3_Witness ==
    /\ last.req.route = "search"
    /\ last.req.q # Undefined
    /\ Len(last.req.q.v) = 101
    /\ last.out[1].status = 400
    /\ DOMAIN cache # {}
    /\ \E c \in Conns : handler[c].route = "search" /\ Len(handler[c].q.v) = 100

-----------------------------------------------------------------------------
(* C4 *)

\* C4: a cache hit makes no upstream call and answers with the stored result with
\* cached set to true; the hit leaves the stored entry as it was (value with
\* cached: false, same videos and count, same expiry), so a later hit gives the
\* same content.
C4_HitLeavesEntry ==
    [][HitStep =>
        LET k == RequestKey(last'.req) IN
        /\ k \in DOMAIN cache
        /\ UNCHANGED <<cache, writtenAt, handler, upstream>>
        /\ cache[k].data.cached = FALSE
        /\ cache[k].data.count = Len(cache[k].data.videos)
        /\ Len(last'.out) = 1
        /\ last'.out[1].body.cached = TRUE
        /\ last'.out[1].body.videos = cache[k].data.videos
        /\ last'.out[1].body.count = cache[k].data.count
        /\ last'.out[1].body = [cache[k].data EXCEPT !.cached = TRUE]]_vars

\* a trending request was answered from the cache and the entry is still stored
\* with cached: false
C4_Witness ==
    /\ LastWasHit
    /\ last.req.route = "trending"
    /\ last.out[1].body.cached = TRUE
    /\ Live(TrendingKey)
    /\ cache[TrendingKey].data.cached = FALSE
    /\ cache[TrendingKey].data.videos = last.out[1].body.videos

-----------------------------------------------------------------------------
(* C5 *)

\* the record has a playable URL: a non-empty string
NonEmptyUrl(rec) == rec.video_url.t = "string" /\ rec.video_url.v # << >>

\* the list of records upstream sent to the last run
LastRawList == Get(Get(last.settled.data, "data"), "videos").items

\* the normalized records of the last run, one per upstream record
LastNormalized ==
    IF last.req.route = "search"
    THEN [i \in 1..Len(LastRawList) |-> NormalizeSearch(LastRawList[i])]
    ELSE [i \in 1..Len(LastRawList) |-> NormalizeTrending(LastRawList[i])]

\* out holds exactly the members of in with a playable URL, in the order of in
IsPlayableSelection(out, in) ==
    \E idx \in [1..Len(out) -> 1..Len(in)] :
        /\ \A i, j \in 1..Len(out) : i < j => idx[i] < idx[j]
        /\ \A i \in 1..Len(out) : out[i] = in[idx[i]]
        /\ {idx[i] : i \in 1..Len(out)} = {j \in 1..Len(in) : NonEmptyUrl(in[j])}

AllPlayable(result) ==
    /\ \A i \in 1..Len(result.videos) : NonEmptyUrl(result.videos[i])
    /\ result.count = Len(result.videos)

\* C5: filter law.  For every upstream list, the videos of the response and of the
\* value written to the cache are exactly the normalized records with a non-empty
\* video_url, in upstream order, and count is their number; no response and no
\* cached value ever holds a record without a playable URL.
C5_FilterLaw ==
    /\ LastWasFresh =>
          /\ IsPlayableSelection(last.out[1].body.videos, LastNormalized)
          /\ last.out[1].body.count = Len(last.out[1].body.videos)
          /\ RequestKey(last.req) \in DOMAIN cache
          /\ cache[RequestKey(last.req)].data = last.out[1].body
    /\ LastWasHit => AllPlayable(last.out[1].body)
    /\ \A k \in DOMAIN cache : AllPlayable(cache[k].data)

\* upstream sent a record without a playable URL ahead of a playable one, and the
\* response and the cached value hold the playable one alone
C5_Witness ==
    /\ LastWasFresh
    /\ Len(LastRawList) = 2
    /\ ~NonEmptyUrl(LastNormalized[1])
    /\ NonEmptyUrl(LastNormalized[2])
    /\ last.out[1].body.videos = << LastNormalized[2] >>
    /\ cache[RequestKey(last.req)].data.videos = << LastNormalized[2] >>

-----------------------------------------------------------------------------
(* C6 *)

\* the payload of a 2xx reply carries no list of records: no data object, no
\* data.videos, a data.videos that is no list, or a list with an entry that is
\* no record
NoRecognizableList(data) ==
    \/ data.t # "object"
    \/ Get(data, "data").t # "object"
    \/ Get(Get(data, "data"), "videos").t # "array"
    \/ \E i \in 1..Len(Get(Get(data, "data"), "videos").items) :
            Get(Get(data, "data"), "videos").items[i].t # "object"

\* C6: a 2xx upstream reply without a recognizable list of records is answered
\* with status 200 and the empty result (videos = [], count = 0), never with an
\* error status.
C6_MalformedIsEmptyResult ==
    (/\ last.req.route \in CachedRoutes
     /\ last.settled.kind = "resolved"
     /\ NoRecognizableList(last.settled.data)) =>
        /\ Len(last.out) = 1
        /\ last.out[1].status = 200
        /\ last.out[1].body.videos = << >>
        /\ last.out[1].body.count = 0

-----------------------------------------------------------------------------
(* C7 *)

IsTimeout(err) == Get(err, "code") = Str(<<"ECONNABORTED">>)
IsRateLimit(err) == Get(err, "response") # Undefined /\ Get(Get(err, "response"), "status") = Num(429)

\* C7: a failed upstream call of /api/search is answered by exactly one response,
\* whose status is 504 for a timeout (code ECONNABORTED), else 429 for an upstream
\* 429, else 500; the timeout check comes first.
C7_SearchFailureStatus ==
    (last.req.route = "search" /\ last.settled.kind = "rejected") =>
        /\ Len(last.out) = 1
        /\ IsTimeout(last.settled.err) => last.out[1].status = 504
        /\ (~IsTimeout(last.settled.err) /\ IsRateLimit(last.settled.err)) =>
                last.out[1].status = 429
        /\ (~IsTimeout(last.settled.err) /\ ~IsRateLimit(last.settled.err)) =>
                last.out[1].status = 500

\* an error that is both a timeout and a 429 was answered 504
C7_Witness ==
    /\ last.req.route = "search"
    /\ last.settled.kind = "rejected"
    /\ IsTimeout(last.settled.err)
    /\ IsRateLimit(last.settled.err)
    /\ last.out[1].status = 504

-----------------------------------------------------------------------------
(* C8 *)

\* the upstream failures that are no timeout
OtherFailures == {e \in UpstreamErrors : ~IsTimeout(e)}

LastTimedOut(route) ==
    /\ last.req.route = route
    /\ last.settled.kind = "rejected"
    /\ last.settled.err = TimeoutError

\* C8, as stated: every upstream call is bounded to 8000 ms, and a request whose
\* call timed out, search or trending, is answered differently from a request
\* whose call failed in another way.
C8_TimeoutDistinctEverywhere ==
    /\ \A c \in Conns : upstream[c] # NoCall => upstream[c].timeout = 8000
    /\ LastTimedOut("search") => \A e \in OtherFailures : last.out # SearchCatch(e)
    /\ LastTimedOut("trending") => \A e \in OtherFailures : last.out # TrendingCatch(e)

\* C8, amended: every upstream call (search and trending) is bounded to 8000 ms;
\* a /api/search request whose call timed out is answered 504, unlike any other
\* upstream failure; a /api/trending request whose call timed out is answered
\* with the same 500 response as any other upstream failure.
C8_TimeoutDistinctForSearch ==
    /\ \A c \in Conns : upstream[c] # NoCall => upstream[c].timeout = 8000
    /\ LastTimedOut("search") =>
          /\ last.out[1].status = 504
          /\ \A e \in OtherFailures : last.out # SearchCatch(e)
    /\ LastTimedOut("trending") =>
          /\ last.out[1].status = 500
          /\ \A e \in OtherFailures : last.out = TrendingCatch(e)

\* a trending call timed out and was answered 500 while a search call, bounded
\* to 8000 ms, is in flight
C8_Witness ==
    /\ LastTimedOut("trending")
    /\ last.out[1].status = 500
    /\ \E c \in Conns : upstream[c].url = SEARCH_URL /\ upstream[c].timeout = 8000

-----------------------------------------------------------------------------
(* C9 *)

RECURSIVE NodesOf(_)
\* every node of a tree the builder returned, at any level
NodesOf(tree) ==
    UNION { {tree[i]} \cup (IF tree[i].type = "dir" THEN NodesOf(tree[i].children) ELSE {})
            : i \in 1..Len(tree) }

\* the directories of the tree, COMICS_DIR included
Directories == {p \in DOMAIN fs : fs[p].kind \in {"dir", "nolist"}}

\* C9: readComicsTree never lets an error out.  Whatever directories cannot be
\* listed, the call on any directory returns normally; a directory that cannot be
\* listed gives the empty sequence (as the root: an empty result; below it: a dir
\* node with children = []); and /api/library answers 200 with {baseUrl, items}.
C9_TreeNeverThrows ==
    /\ \A p \in Directories :
          LET built == readComicsTree(fs, COMICS_URL, p) IN
          /\ ~built.threw
          /\ fs[p].kind = "nolist" => built.entries = << >>
          /\ \A n \in NodesOf(built.entries) :
                (n.type = "dir" /\ fs[n.path].kind = "nolist") => n.children = << >>
    /\ LET answer == LibraryResponse(fs) IN
          /\ Len(answer) = 1
          /\ answer[1].status = 200
          /\ DOMAIN answer[1].body = {"baseUrl", "items"}
    /\ last.req.route = "library" =>
          /\ last.out[1].status = 200
          /\ DOMAIN last.out[1].body = {"baseUrl", "items"}

\* /api/library answered while a directory that holds entries cannot be listed:
\* the answer shows it as a dir node without children, beside its sibling
C9_Witness ==
    /\ last.req.route = "library"
    /\ last.out = LibraryResponse(fs)
    /\ Len(last.out[1].body.items) = 2
    /\ \E n \in NodesOf(last.out[1].body.items) :
          /\ n.type = "dir"
          /\ fs[n.path].kind = "nolist"
          /\ Children(fs, n.path) # {}
          /\ n.children = << >>

-----------------------------------------------------------------------------
(* C10 *)

\* C10: fault containment is per branch.  In the result for a directory that can
\* be listed, every entry that is not hidden and can be stat'ed has its node,
\* whatever is wrong with its siblings (a sibling that cannot be stat'ed, a
\* sibling directory that cannot be listed); so it is in the answer of
\* /api/library for the tree as it stands.
C10_SiblingsKept ==
    (last.req.route = "library" /\ last.out = LibraryResponse(fs)) =>
        /\ fs[<< >>].kind = "dir" =>
              \A q \in Children(fs, << >>) :
                  (~Hidden(fs[q].name) /\ ~StatThrows(fs, q)) =>
                      \E i \in 1..Len(last.out[1].body.items) :
                          last.out[1].body.items[i].name = fs[q].name
        /\ \A p \in Directories :
              fs[p].kind = "dir" =>
                  \A q \in Children(fs, p) :
                      (~Hidden(fs[q].name) /\ ~StatThrows(fs, q)) =>
                          \E i \in 1..Len(readComicsTree(fs, COMICS_URL, p).entries) :
                              readComicsTree(fs, COMICS_URL, p).entries[i].name = fs[q].name

-----------------------------------------------------------------------------
(* C11 *)

\* in one list of nodes: every dir node before every file node, and the nodes of
\* one type in non-decreasing name order under localeCompare
SortedLevel(list) ==
    \A i, j \in 1..Len(list) :
        i < j =>
            /\ ~(list[i].type = "file" /\ list[j].type = "dir")
            /\ list[i].type = list[j].type =>
                    LocaleCompare(list[i].name, list[j].name) <= 0

\* the root list of a tree and every children list in it
Levels(tree) == {tree} \cup {n.children : n \in {m \in NodesOf(tree) : m.type = "dir"}}

OrderedTree(tree) ==
    /\ \A level \in Levels(tree) : SortedLevel(level)
    /\ \A n \in NodesOf(tree) : ~Hidden(n.name)

\* C11: at every level of the tree readComicsTree returns, for any directory and
\* any listing order, all dir nodes precede all file nodes and the nodes of one
\* type are in non-decreasing name order; no node at any level has a name that
\* starts with "."; the same holds of the items /api/library answers with.
C11_TreeOrdered ==
    /\ \A p \in Directories : OrderedTree(readComicsTree(fs, COMICS_URL, p).entries)
    /\ last.req.route = "library" => OrderedTree(last.out[1].body.items)

\* the directory lists file b, then file a, and holds a subdirectory c:
\* /api/library answered [dir c, file a, file b]
C11_Witness ==
    /\ last.req.route = "library"
    /\ last.out = LibraryResponse(fs)
    /\ {<<"a">>, <<"b">>, <<"c">>} \subseteq DOMAIN fs
    /\ fs[<<"b">>].ord < fs[<<"a">>].ord
    /\ Len(last.out[1].body.items) = 3
    /\ [i \in 1..3 |-> <<last.out[1].body.items[i].type, last.out[1].body.items[i].name>>]
            = << <<"dir", <<"c">> >>, <<"file", <<"a">> >>, <<"file", <<"b">> >> >>

-----------------------------------------------------------------------------
(* C12 *)

\* this step finishes a run of the given route
Finishes(route) == last' # last /\ last'.req.route = route

\* C12: lazy expiration.  An entry leaves the Map only in a step in which a
\* request reads the entry's own key at a time past its expiry (and so misses).
\* The passage of time, a request for another key, a cache write, a health or
\* library request and a request that is answered with an error remove nothing;
\* /api/health reports the size of the Map as it is, expired entries included.
C12_LazyExpiration ==
    [][/\ \A k \in DOMAIN cache \ DOMAIN cache' :
            /\ now > cache[k].expiry
            /\ \E c \in Conns : MissStep(c) /\ handler'[c].cacheKey = k
       /\ now' # now => cache' = cache
       /\ Finishes("library") => cache' = cache
       /\ Finishes("health") =>
            /\ cache' = cache
            /\ last'.out[1].body.cache_size = Cardinality(DOMAIN cache)
       /\ (last' # last /\ last'.out[1].status # 200) => cache' = cache
       /\ \A c \in Conns : SettleStep(c) => DOMAIN cache \subseteq DOMAIN cache']_vars

\* /api/health reported two entries: the trending entry, past its expiry and not
\* read since, and a search entry written after the trending entry expired
C12_Witness ==
    /\ last.req.route = "health"
    /\ last.out[1].body.cache_size = 2
    /\ Cardinality(DOMAIN cache) = 2
    /\ TrendingKey \in DOMAIN cache
    /\ now > cache[TrendingKey].expiry
    /\ \E k \in DOMAIN cache : k # TrendingKey /\ writtenAt[k] > cache[TrendingKey].expiry

-----------------------------------------------------------------------------
(* C13 *)

\* this step runs the handler on connection c to its end with a result of its own
FreshStep(c) ==
    /\ SettleStep(c)
    /\ last'.settled.kind = "resolved"
    /\ "cached" \in DOMAIN last'.out[1].body

\* C13: setCache(k, v) at time t replaces whatever entry k has, expired or not,
\* by v with expiry exactly t + 300000 and leaves the entry of every other key as
\* it was; every entry in the Map, at any time, has the expiry of its last write
\* plus the fixed TTL.
C13_SetReplaces ==
    /\ [](\A k \in DOMAIN cache : cache[k].expiry = writtenAt[k] + CACHE_TTL)
    /\ [][\A c \in Conns :
            FreshStep(c) =>
                LET k == handler[c].cacheKey IN
                cache' = [ j \in DOMAIN cache \cup {k} |->
                             IF j = k
                             THEN [data |-> last'.out[1].body, expiry |-> now + 300000]
                             ELSE cache[j] ]]_vars

\* a request stored its result after the clock had moved on, beside the entry of
\* another key that was written at the start and is past its expiry
C13_Witness ==
    /\ LastWasFresh
    /\ now > CACHE_TTL
    /\ RequestKey(last.req) \in DOMAIN cache
    /\ cache[RequestKey(last.req)].expiry = now + CACHE_TTL
    /\ \E j \in DOMAIN cache :
          j # RequestKey(last.req) /\ writtenAt[j] = 0 /\ cache[j].expiry = CACHE_TTL

-----------------------------------------------------------------------------
(* C14 *)

\* the upstream records of the last run that the filter keeps, in order: the
\* records the videos of its response were made from, one for one
LastKeptRaw == SelectSeq(LastRawList, LAMBDA v : Truthy(Get(v, "play")))

\* the value is there: neither undefined nor null
Present(x) == ~Nullish(x)

\* the fields of a VideoRecord that the normalizer gives a default
DefaultedFields(rec) ==
    << rec.caption, rec.author.username, rec.author.nickname, rec.author.avatar,
       rec.duration, rec.stats.likes, rec.stats.comments, rec.stats.shares,
       rec.stats.plays >>

UNKNOWN == Str(<<"unknown">>)
UNKNOWN_USER == Str(<<"Unknown User">>)

\* the documented defaults, in the order of DefaultedFields
Defaults ==
    << Str(<<>>), UNKNOWN, UNKNOWN_USER, Str(<<>>), Num(0), Num(0), Num(0), Num(0), Num(0) >>

\* the upstream fields the defaulted fields are read from, in the same order
UpstreamOfDefaulted(v) ==
    << Get(v, "title"), OptGet(Get(v, "author"), "unique_id"),
       OptGet(Get(v, "author"), "nickname"), OptGet(Get(v, "author"), "avatar"),
       Get(v, "duration"), Get(v, "digg_count"), Get(v, "comment_count"),
       Get(v, "share_count"), Get(v, "play_count") >>

\* C14, as stated: in every VideoRecord of a response, video_url_no_wm, caption,
\* author.username, author.nickname, author.avatar, cover, duration and the four
\* stats are all present, never undefined, whatever the upstream record lacks.
C14_AllFieldsTotal ==
    LastWasFresh =>
        \A i \in 1..Len(last.out[1].body.videos) :
            LET rec == last.out[1].body.videos[i] IN
            /\ \A f \in 1..9 : Present(DefaultedFields(rec)[f])
            /\ Present(rec.video_url_no_wm)
            /\ Present(rec.cover)

\* C14, amended: in every VideoRecord of a response, caption, author.username,
\* author.nickname, author.avatar, duration and the four stats are present, each
\* holding the upstream value or its documented default; video_url_no_wm and
\* cover have no default: video_url_no_wm is the upstream wmplay as it is, cover
\* is the upstream cover or else origin_cover as it is, and each is undefined
\* when the upstream record has no such field.
C14_DefaultedFieldsTotal ==
    LastWasFresh =>
        /\ Len(last.out[1].body.videos) = Len(LastKeptRaw)
        /\ \A i \in 1..Len(last.out[1].body.videos) :
              LET rec == last.out[1].body.videos[i]
                  v == LastKeptRaw[i]
              IN  /\ \A f \in 1..9 :
                        /\ Present(DefaultedFields(rec)[f])
                        /\ DefaultedFields(rec)[f] \in {UpstreamOfDefaulted(v)[f], Defaults[f]}
                  /\ rec.video_url_no_wm = Get(v, "wmplay")
                  /\ rec.cover \in {Get(v, "cover"), Get(v, "origin_cover")}
                  /\ (Get(v, "cover") = Undefined /\ Get(v, "origin_cover") = Undefined) =>
                        rec.cover = Undefined

\* upstream sent a record with nothing but an id and a play URL: its VideoRecord
\* has the defaults, and video_url_no_wm and cover undefined
C14_Witness ==
    /\ LastWasFresh
    /\ LastRawList = << MinimalVideo >>
    /\ Len(last.out[1].body.videos) = 1
    /\ last.out[1].body.videos[1].caption = Str(<<>>)
    /\ last.out[1].body.videos[1].author.username = UNKNOWN
    /\ last.out[1].body.videos[1].stats.likes = Num(0)
    /\ last.out[1].body.videos[1].video_url_no_wm = Undefined
    /\ last.out[1].body.videos[1].cover = Undefined

-----------------------------------------------------------------------------
(* C15 *)

\* the entry of key k is written in this step
Written(k) == k \in DOMAIN cache' /\ (k \notin DOMAIN cache \/ cache'[k] # cache[k])

\* C15: the per-request state machine.  A handler makes its upstream call only
\* after its validation passed and its cache check missed, and it answers nothing
\* before the call settles; while it waits it has exactly one call in flight; when
\* the call settles, successfully or not, the handler ends without another call
\* (no retry); an entry is written only by a handler whose own call succeeded, in
\* the run that answers with the written value; every run sends exactly one
\* response.
C15_RequestStateMachine ==
    /\ [](/\ \A c \in Conns :
                /\ handler[c] # Idle <=> upstream[c] # NoCall
                /\ handler[c].route = "search" => SearchValidation(handler[c].q) = << >>
          /\ last # NoRun => Len(last.out) = 1)
    /\ [][/\ \A c \in Conns :
                /\ MissStep(c) =>
                      /\ getCached(cache, handler'[c].cacheKey, now).value = Null
                      /\ upstream'[c] # NoCall
                      /\ last' = last
                /\ SettleStep(c) =>
                      /\ upstream[c] # NoCall
                      /\ upstream'[c] = NoCall
                      /\ last'.settled # NotCalled
                /\ (handler[c] # Idle /\ handler'[c] # Idle) =>
                      (handler'[c] = handler[c] /\ upstream'[c] = upstream[c])
          /\ \A k \in DOMAIN cache' :
                Written(k) =>
                    \E c \in Conns :
                        /\ FreshStep(c)
                        /\ handler[c].cacheKey = k
                        /\ cache'[k].data = last'.out[1].body]_vars

\* the upstream call of a search request failed: the request was answered once,
\* no call is in flight, and nothing was written
C15_Witness ==
    /\ last.req.route = "search"
    /\ last.settled.kind = "rejected"
    /\ Len(last.out) = 1
    /\ \A c \in Conns : handler[c] = Idle /\ upstream[c] = NoCall
    /\ cache = EmptyMap

-----------------------------------------------------------------------------
(* C16 *)

\* the last run finished a request of the given route that had called upstream,
\* and answered it
Responded(route) ==
    /\ last.req.route = route
    /\ last.settled # NotCalled
    /\ Len(last.out) = 1

\* C16: every request is answered.  A request that does not call upstream
\* (health, library, a rejected search, a cache hit) is answered in the step
\* that receives it; a search or trending request that waits for upstream is
\* answered once its call has settled, which it eventually does, and then its
\* handler is idle again.  A waiting handler can always take its upstream reply,
\* and an idle connection can always take a request, whatever the other
\* connections and the cache are doing.
C16_EveryRequestResponds ==
    /\ \A c \in Conns :
          /\ (handler[c].route = "search") ~> (handler[c] = Idle /\ Responded("search"))
          /\ (handler[c].route = "trending") ~> (handler[c] = Idle /\ Responded("trending"))
    /\ [](\A c \in Conns :
            /\ handler[c].route = "search" => ENABLED SearchSettle(c, LivePayloads)
            /\ handler[c].route = "trending" => ENABLED TrendingSettle(c, LivePayloads)
            /\ handler[c] = Idle =>
                  /\ ENABLED TrendingRequest(c)
                  /\ ENABLED HealthRequest(c)
                  /\ ENABLED LibraryRequest(c)
                  /\ \A q \in Queries : ENABLED SearchRequest(c, q, Undefined))
    /\ [][\A c \in Conns :
            (handler[c] = Idle /\ handler'[c] = Idle /\ last' # last) =>
                Len(last'.out) = 1]_vars

\* a search request whose call timed out was answered 504 while a trending
\* request on the other connection is still waiting for upstream
C16_Witness ==
    /\ LastTimedOut("search")
    /\ last.out[1].status = 504
    /\ \E c \in Conns : handler[c].route = "trending" /\ upstream[c] = TrendingCall

-----------------------------------------------------------------------------
(* C17 *)

\* a if it is truthy, else b
FirstTruthy(a, b) == IF Truthy(a) THEN a ELSE b

\* the field k of the nested author object, undefined when there is no such object
AuthorField(v, k) ==
    IF Get(v, "author").t = "object" THEN Get(Get(v, "author"), k) ELSE Undefined

\* the upstream field is absent or 0
AbsentOrZero(x) == x = Undefined \/ x = Num(0)

\* a numeric field: 0 when the upstream field is absent or 0, else the upstream value
Counted(out, up) == IF AbsentOrZero(up) THEN out = Num(0) ELSE out = up

\* the VideoRecord without its create_time
WithoutCreateTime(rec) == [f \in DOMAIN rec \ {"create_time"} |-> rec[f]]

\* C17: field resolution.  In every VideoRecord of a response, made from the
\* upstream record v: id is v.video_id if truthy, else v.aweme_id; cover is
\* v.cover if truthy, else v.origin_cover; caption is v.title, else ""; the author
\* fields are those of v.author, else "unknown", "Unknown User" and "", also when
\* v has no author object; duration and the four stats are 0 when the upstream
\* field is absent and when it is 0.  Search and trending map a record to the
\* same VideoRecord, except that search alone adds create_time.
C17_FieldResolution ==
    LastWasFresh =>
        /\ Len(last.out[1].body.videos) = Len(LastKeptRaw)
        /\ \A i \in 1..Len(last.out[1].body.videos) :
              LET rec == last.out[1].body.videos[i]
                  v == LastKeptRaw[i]
              IN  /\ rec.id = FirstTruthy(Get(v, "video_id"), Get(v, "aweme_id"))
                  /\ rec.cover = FirstTruthy(Get(v, "cover"), Get(v, "origin_cover"))
                  /\ rec.caption = FirstTruthy(Get(v, "title"), Str(<<>>))
                  /\ rec.author.username = FirstTruthy(AuthorField(v, "unique_id"), UNKNOWN)
                  /\ rec.author.nickname = FirstTruthy(AuthorField(v, "nickname"), UNKNOWN_USER)
                  /\ rec.author.avatar = FirstTruthy(AuthorField(v, "avatar"), Str(<<>>))
                  /\ Counted(rec.duration, Get(v, "duration"))
                  /\ Counted(rec.stats.likes, Get(v, "digg_count"))
                  /\ Counted(rec.stats.comments, Get(v, "comment_count"))
                  /\ Counted(rec.stats.shares, Get(v, "share_count"))
                  /\ Counted(rec.stats.plays, Get(v, "play_count"))
                  /\ IF last.req.route = "search"
                     THEN /\ "create_time" \in DOMAIN rec
                          /\ rec.create_time = Get(v, "create_time")
                     ELSE "create_time" \notin DOMAIN rec
                  /\ WithoutCreateTime(rec) = WithoutCreateTime(NormalizeSearch(v))
                  /\ WithoutCreateTime(rec) = NormalizeTrending(v)

\* a search got a record with both ids, both covers and digg_count 0, and a
\* record with an empty video_id and cover, no author and no digg_count: the
\* first keeps video_id and cover, the second falls back to aweme_id and
\* origin_cover and to the author defaults, and both have stats.likes = 0
C17_Witness ==
    /\ LastWasFresh
    /\ last.req.route = "search"
    /\ LastRawList = << ZeroVideo, FallbackVideo >>
    /\ Len(last.out[1].body.videos) = 2
    /\ last.out[1].body.videos[1].id = Str(<<"v5">>)
    /\ last.out[1].body.videos[1].cover = Str(<<"c5">>)
    /\ last.out[1].body.videos[1].author.username = UNKNOWN
    /\ last.out[1].body.videos[1].author.nickname = Str(<<"n5">>)
    /\ last.out[1].body.videos[1].stats.likes = Num(0)
    /\ last.out[1].body.videos[2].id = Str(<<"v6">>)
    /\ last.out[1].body.videos[2].cover = Str(<<"o6">>)
    /\ last.out[1].body.videos[2].author.nickname = UNKNOWN_USER
    /\ last.out[1].body.videos[2].stats.likes = Num(0)

-----------------------------------------------------------------------------
(* C18 *)

\* C18: cache keys separate requests.  A search request is answered from the
\* cache only with a result that a request with the same parameters stored: the
\* answer carries the request's own q; and a search handler never works on the
\* trending key.
C18_KeysSeparateRequests ==
    /\ [](\A c \in Conns : handler[c].route = "search" => handler[c].cacheKey # TrendingKey)
    /\ [][(HitStep /\ last'.req.route = "search") =>
            last'.out[1].body.query = last'.req.q]_vars

-----------------------------------------------------------------------------
(* C19 *)

\* the payload has a data object with a videos field
HasVideos(data) ==
    /\ data.t = "object"
    /\ "data" \in DOMAIN data.props
    /\ data.props.data.t = "object"
    /\ "videos" \in DOMAIN data.props.data.props

\* the response is the empty-result response: videos [], count 0 and a message
EmptyResult(body) == "message" \in DOMAIN body /\ "videos" \in DOMAIN body

\* C19: the Map is written only in the run of a search or trending request whose
\* upstream call succeeded with a payload that has data.videos, under that
\* request's key.  A run that is rejected by validation, answered from the cache,
\* failed by upstream, answered with the empty-result response, or a health or
\* library request writes nothing.  So every stored value has cached = false and
\* count equal to the length of its videos, none is an empty-result response,
\* and no cache hit answers with one.
C19_WritesOnlyOnSuccess ==
    /\ [](\A k \in DOMAIN cache :
            /\ ~EmptyResult(cache[k].data)
            /\ cache[k].data.cached = FALSE
            /\ cache[k].data.count = Len(cache[k].data.videos))
    /\ [][/\ \A k \in DOMAIN cache' :
                Written(k) =>
                    /\ \E c \in Conns : SettleStep(c) /\ handler[c].cacheKey = k
                    /\ last'.req.route \in CachedRoutes
                    /\ RequestKey(last'.req) = k
                    /\ last'.settled.kind = "resolved"
                    /\ HasVideos(last'.settled.data)
                    /\ last'.out[1].status = 200
          /\ (/\ last' # last
              /\ \/ last'.settled.kind # "resolved"
                 \/ ~HasVideos(last'.settled.data)
                 \/ last'.out[1].status # 200
                 \/ EmptyResult(last'.out[1].body)
                 \/ last'.req.route \notin CachedRoutes) =>
                \A k \in DOMAIN cache' : ~Written(k)
          /\ HitStep => ~EmptyResult(last'.out[1].body)]_vars

\* upstream answered a trending request without data.videos and the request got
\* the empty-result response; nothing was stored for it, while the search entry,
\* stored for a list whose records were all dropped, holds videos = [] with
\* cached = false
C19_Witness ==
    /\ last.req.route = "trending"
    /\ last.settled.kind = "resolved"
    /\ ~HasVideos(last.settled.data)
    /\ EmptyResult(last.out[1].body)
    /\ TrendingKey \notin DOMAIN cache
    /\ \E k \in DOMAIN cache :
          /\ cache[k].data.videos = << >>
          /\ cache[k].data.count = 0
          /\ cache[k].data.cached = FALSE

-----------------------------------------------------------------------------
(* C20 *)

\* C20: reads never extend an entry's lifetime.  A step in which no handler
\* finishes its upstream call (so: every getCached, hit or miss) leaves each entry
\* that stays in the Map with the value and the expiry it had; a request is
\* answered from the cache no later than 300000 ms after the setCache that stored
\* the entry, however many hits came before; and a request that finds the entry
\* of its key later than that removes it and goes to upstream.
C20_ReadsNeverExtend ==
    [][/\ (\A c \in Conns : ~SettleStep(c)) =>
            \A k \in DOMAIN cache' :
                /\ k \in DOMAIN cache
                /\ cache'[k] = cache[k]
                /\ writtenAt'[k] = writtenAt[k]
       /\ HitStep =>
            /\ RequestKey(last'.req) \in DOMAIN cache
            /\ now - writtenAt[RequestKey(last'.req)] <= 300000
            /\ cache'[RequestKey(last'.req)].expiry = writtenAt[RequestKey(last'.req)] + 300000
       /\ \A c \in Conns :
            (MissStep(c) /\ handler'[c].cacheKey \in DOMAIN cache) =>
                /\ now - writtenAt[handler'[c].cacheKey] > 300000
                /\ handler'[c].cacheKey \notin DOMAIN cache'
                /\ upstream'[c] # NoCall]_vars

\* a trending request was answered from the cache, and the trending request that
\* came after the entry's 300000 ms found it expired: the entry is gone and the
\* request waits for upstream
C20_Witness ==
    /\ LastWasHit
    /\ last.req.route = "trending"
    /\ now > CACHE_TTL
    /\ TrendingKey \notin DOMAIN cache
    /\ \E c \in Conns : handler[c].route = "trending" /\ upstream[c] = TrendingCall
    /\ \A c \in Conns : handler[c].route \in {"idle", "trending"}

====
